---------------------------- MODULE Spec2Model ----------------------------
(***************************************************************************)
(* A model of manta's SVLocus (the locus graph): a dense vector of nodes,  *)
(* each with a count, a genome interval and a map from neighbour index to  *)
(* edge, plus the observer channel that announces node adds and deletes.   *)
(***************************************************************************)
EXTENDS Integers, Sequences, FiniteSets, TLC

\* ------------------------------------------------------------------ bounds
\* The largest number of nodes a locus is grown to.
MaxNodes == 3

\* linkNodes is called while the graph holds fewer than this many edges.
MaxEdges == 2

\* The largest number of mergeNode calls in one run (edge counts grow with them).
MaxMerges == 1

\* unsigned short: SVLocusEdge::count and SVLocusNode::count are 16 bits wide.
CountModulus == 65536

\* The locus indices a locus is constructed with.
LocusIndices == {0, 1}

\* ---------------------------------------------------------------- variables
VARIABLES
    _graph,     \* SVLocus::_graph: the sequence of nodes; node i is _graph[i+1]
    _index,     \* SVLocus::_index
    observed,   \* the observer's index: node indices announced added and not yet deleted
    events,     \* the events the last operation delivered to the observer, in order
    last,       \* the name of the last operation called
    ret,        \* the value the last operation returned (0 for a void one)
    aborted,    \* an assertion has failed: the process is gone
    merges,     \* the number of mergeNode calls made so far
    staleJump,  \* GlobalJumpAligner: _score2[0].jump, the scratch entry that outlives a call
    aln,        \* GlobalJumpAligner::align: the call's arguments, locals and result
    asm,        \* SVLocusAssembler::assembleSVLocus: the call's reads, loop state and contigs
    sa          \* SimpleAlignment.cpp: the last call of a matchify function and what it returned

locusVars == <<_graph, _index, observed, events, last, ret, aborted, merges>>

alignerVars == <<staleJump, aln>>

assemblerVars == <<asm>>

alignmentVars == <<sa>>

vars == <<locusVars, alignerVars, assemblerVars, alignmentVars>>

\* An operation of the locus touches no other component.
LocusOnly == UNCHANGED <<alignerVars, assemblerVars, alignmentVars>>

\* Nor does a call of the aligner.
AlignerOnly == UNCHANGED <<locusVars, assemblerVars, alignmentVars>>

\* Nor does a call of the assembler.
AssemblerOnly == UNCHANGED <<locusVars, alignerVars, alignmentVars>>

\* Nor does a function of SimpleAlignment.cpp.
AlignmentOnly == UNCHANGED <<locusVars, alignerVars, assemblerVars>>

\* ---------------------------------------------------------------- data types
GenomeInterval(initTid, beginPos, endPos) ==
    [tid |-> initTid, range |-> [begin_pos |-> beginPos, end_pos |-> endPos]]

\* The constructor converts its unsigned argument to the unsigned short field.
SVLocusEdge(init_count) == [count |-> init_count % CountModulus]

\* e1.mergeEdge(e2): count += edge.count, in unsigned short arithmetic.
mergeEdge(e1, e2) == [count |-> (e1.count + e2.count) % CountModulus]

\* An empty std::map<NodeIndexType,SVLocusEdge>.
NoEdges == [k \in {} |-> SVLocusEdge(0)]

\* std::map::insert: the pair is added unless the key is there already.
MapInsert(m, k, v) ==
    [x \in DOMAIN m \cup {k} |-> IF x \in DOMAIN m THEN m[x] ELSE v]

\* std::map::erase(key)
MapErase(m, k) == [x \in DOMAIN m \ {k} |-> m[x]]

\* std::map::count(key)
MapCount(m, k) == IF k \in DOMAIN m THEN 1 ELSE 0

\* The default-constructed node: count 0, interval (0,[0,0)), no edges.
SVLocusNode == [count |-> 0, interval |-> GenomeInterval(0, 0, 0), edges |-> NoEdges]

\* The copy constructor with the offset forgotten.
SVLocusNodeNoOffset(in, offset) ==
    [count |-> in.count, interval |-> in.interval, edges |-> in.edges]

\* The copy constructor that offsets every edge key.
SVLocusNodeOffset(in, offset) ==
    [count    |-> in.count,
     interval |-> in.interval,
     edges    |-> [k \in {j + offset : j \in DOMAIN in.edges} |-> in.edges[k - offset]]]

\* ------------------------------------------------------------ graph access
size(g) == Len(g)

ValidIndex(g, nodePtr) == nodePtr \in 0 .. (size(g) - 1)

\* getNode(nodePtr), whose assertion is nodePtr < _graph.size().
getNode(g, nodePtr) == g[nodePtr + 1]

\* The graph with node nodePtr replaced.
setNode(g, nodePtr, node) == [g EXCEPT ![nodePtr + 1] = node]

\* newGraphNode: resize(index+1) appends a default node; its index is the old size.
newGraphNode(g) == Append(g, SVLocusNode)

\* ----------------------------------------------------------- notifications
notifyAdd(nodePtr) == [isAdd |-> TRUE, locus |-> _index, node |-> nodePtr]

\* notifyDelete sending the flag notifyAdd sends.
notifyDeleteAsAdd(nodePtr) == [isAdd |-> TRUE, locus |-> _index, node |-> nodePtr]

notifyDelete(nodePtr) == [isAdd |-> FALSE, locus |-> _index, node |-> nodePtr]

\* The observer's index after it has received the events in order.
RECURSIVE Observe(_, _)
Observe(idx, evs) ==
    IF evs = <<>> THEN idx
    ELSE Observe(IF Head(evs).isAdd THEN idx \cup {Head(evs).node}
                 ELSE idx \ {Head(evs).node},
                 Tail(evs))

\* ------------------------------------------------------------- operations
\* The index addNode returns: the one newGraphNode gave it, the old size.
addNodeIndex(g) == size(g)

\* addNode with the count increment forgotten.
addNodeNoCount(g, tid, beginPos, endPos) ==
    LET nodePtr == addNodeIndex(g)
        g1 == newGraphNode(g)
        node == getNode(g1, nodePtr)
    IN  setNode(g1, nodePtr,
                [node EXCEPT !.interval = GenomeInterval(tid, beginPos, endPos)])

\* addNode: the graph after the call.
addNode(g, tid, beginPos, endPos) ==
    LET nodePtr == addNodeIndex(g)
        g1 == newGraphNode(g)
        node == getNode(g1, nodePtr)
    IN  setNode(g1, nodePtr,
                [node EXCEPT !.interval = GenomeInterval(tid, beginPos, endPos),
                             !.count = (node.count + 1) % CountModulus])

\* linkNodes' four assertions, all evaluated before the first insert.
linkNodesAsserts(g, nodePtr1, nodePtr2) ==
    /\ ValidIndex(g, nodePtr1)
    /\ ValidIndex(g, nodePtr2)
    /\ 0 = MapCount(getNode(g, nodePtr1).edges, nodePtr2)
    /\ 0 = MapCount(getNode(g, nodePtr2).edges, nodePtr1)

\* linkNodes with one insert forgotten (the reverse edge).
linkNodesOneWay(g, nodePtr1, nodePtr2) ==
    LET node1 == getNode(g, nodePtr1)
    IN  setNode(g, nodePtr1,
                [node1 EXCEPT !.edges = MapInsert(@, nodePtr2, SVLocusEdge(1))])

\* linkNodes with the second insert keyed by the wrong index.
linkNodesWrongKey(g, nodePtr1, nodePtr2) ==
    LET node1 == getNode(g, nodePtr1)
        g1 == setNode(g, nodePtr1,
                      [node1 EXCEPT !.edges = MapInsert(@, nodePtr2, SVLocusEdge(1))])
        node2 == getNode(g1, nodePtr2)
    IN  setNode(g1, nodePtr2,
                [node2 EXCEPT !.edges = MapInsert(@, nodePtr2, SVLocusEdge(1))])

\* linkNodes with the edges default-constructed (count 0).
linkNodesZeroCount(g, nodePtr1, nodePtr2) ==
    LET node1 == getNode(g, nodePtr1)
        g1 == setNode(g, nodePtr1,
                      [node1 EXCEPT !.edges = MapInsert(@, nodePtr2, SVLocusEdge(0))])
        node2 == getNode(g1, nodePtr2)
    IN  setNode(g1, nodePtr2,
                [node2 EXCEPT !.edges = MapInsert(@, nodePtr1, SVLocusEdge(0))])

\* linkNodes: the two inserts, in order (node1 and node2 may be the same node).
linkNodes(g, nodePtr1, nodePtr2) ==
    LET node1 == getNode(g, nodePtr1)
        g1 == setNode(g, nodePtr1,
                      [node1 EXCEPT !.edges = MapInsert(@, nodePtr2, SVLocusEdge(1))])
        node2 == getNode(g1, nodePtr2)
    IN  setNode(g1, nodePtr2,
                [node2 EXCEPT !.edges = MapInsert(@, nodePtr1, SVLocusEdge(1))])

\* copyLocus: every node of fromGraph appended, its edge keys offset by the old size.
RECURSIVE copyLocusFrom(_, _, _, _)
copyLocusFrom(g, fromGraph, offset, k) ==
    IF k > size(fromGraph) THEN g
    ELSE LET nodeIndex == size(g)
             g1 == newGraphNode(g)
         IN  copyLocusFrom(setNode(g1, nodeIndex, SVLocusNodeOffset(fromGraph[k], offset)),
                           fromGraph, offset, k + 1)

copyLocus(g, fromGraph) == copyLocusFrom(g, fromGraph, size(g), 1)

\* The add events of copyLocus, one per copied node, in order.
copyLocusEvents(n, m) == [k \in 1 .. m |-> notifyAdd(n + k - 1)]

\* clear: one delete event per node, in index order, then the vector is emptied.
clearEvents(n) == [k \in 1 .. n |-> notifyDelete(k - 1)]

clear(g) == <<>>

\* ------------------------------------- operations declared but not defined
\* clearNodeEdges, eraseNode, mergeNode and checkState are declared in the
\* header; their bodies follow the design document.

\* clearNodeEdges: every edge incident to nodePtr goes, in both directions.
clearNodeEdges(g, nodePtr) ==
    [k \in 1 .. size(g) |->
        IF k = nodePtr + 1 THEN [g[k] EXCEPT !.edges = NoEdges]
        ELSE [g[k] EXCEPT !.edges = MapErase(@, nodePtr)]]

\* An edge map with every key above nodePtr moved down by one (nodePtr is not a key).
renumberEdges(edges, nodePtr) ==
    [k \in {IF j > nodePtr THEN j - 1 ELSE j : j \in DOMAIN edges} |->
        edges[IF k >= nodePtr THEN k + 1 ELSE k]]

\* eraseNode: the node's edges are cleared, the node leaves the dense vector,
\* every later node moves down by one and every key above nodePtr follows.
eraseNode(g, nodePtr) ==
    LET g1 == clearNodeEdges(g, nodePtr)
    IN  [k \in 1 .. (size(g) - 1) |->
            LET node == g1[IF k >= nodePtr + 1 THEN k + 1 ELSE k]
            IN  [node EXCEPT !.edges = renumberEdges(@, nodePtr)]]

\* The events of eraseNode on a graph of size n: a delete for the erased node,
\* then for every later node an add at its new index and a delete at its old one.
RECURSIVE moveEvents(_, _)
moveEvents(j, n) ==
    IF j >= n THEN <<>>
    ELSE <<notifyAdd(j - 1), notifyDelete(j)>> \o moveEvents(j + 1, n)

eraseNodeEvents(n, nodePtr) == <<notifyDelete(nodePtr)>> \o moveEvents(nodePtr + 1, n)

\* The redirect step of mergeNode: every edge of fromIndex to a neighbour other
\* than toIndex (and other than fromIndex itself) now starts at toIndex, summed
\* with the edge toIndex already has; the neighbour's reverse edge is retargeted
\* and summed the same way; the edge between fromIndex and toIndex is dropped.
redirectEdges(g, fromIndex, toIndex) ==
    LET fromNode == getNode(g, fromIndex)
        moved == DOMAIN fromNode.edges \ {fromIndex, toIndex}
    IN  [k \in 1 .. size(g) |->
            LET x == k - 1
                node == g[k]
            IN  IF x = toIndex
                THEN [node EXCEPT !.edges =
                        [y \in (DOMAIN node.edges \ {fromIndex}) \cup moved |->
                            IF y \in moved
                            THEN IF y \in DOMAIN node.edges
                                 THEN mergeEdge(node.edges[y], fromNode.edges[y])
                                 ELSE fromNode.edges[y]
                            ELSE node.edges[y]]]
                ELSE IF x \in moved /\ fromIndex \in DOMAIN node.edges
                THEN [node EXCEPT !.edges =
                        [y \in (DOMAIN node.edges \ {fromIndex}) \cup {toIndex} |->
                            IF y = toIndex
                            THEN IF toIndex \in DOMAIN node.edges
                                 THEN mergeEdge(node.edges[toIndex], node.edges[fromIndex])
                                 ELSE node.edges[fromIndex]
                            ELSE node.edges[y]]]
                ELSE node]

\* mergeNode: redirect, clear what is left of fromIndex's edges, erase fromIndex.
mergeNode(g, fromIndex, toIndex) ==
    eraseNode(clearNodeEdges(redirectEdges(g, fromIndex, toIndex), fromIndex), fromIndex)

\* checkState: no edge A->B without an edge B->A.
checkState(g) ==
    \A a \in 0 .. (size(g) - 1) : \A b \in DOMAIN getNode(g, a).edges :
        ValidIndex(g, b) /\ a \in DOMAIN getNode(g, b).edges

\* ----------------------------------------------------------- serialization
\* An archive is the sequence of numbers the members are written as, in the
\* order the serialize functions name them; a container is written as its
\* size followed by its items, a map in ascending key order.

\* The keys of a map in ascending order.
RECURSIVE SortedKeys(_)
SortedKeys(S) ==
    IF S = {} THEN <<>>
    ELSE LET m == CHOOSE x \in S : \A y \in S : x <= y
         IN  <<m>> \o SortedKeys(S \ {m})

RECURSIVE saveEdgeItems(_, _)
saveEdgeItems(edges, keys) ==
    IF keys = <<>> THEN <<>>
    ELSE <<Head(keys), edges[Head(keys)].count>> \o saveEdgeItems(edges, Tail(keys))

\* SVLocusNode::serialize with the count left out.
serializeNodeNoCount(node) ==
    <<0, node.interval.tid, node.interval.range.begin_pos, node.interval.range.end_pos,
      Cardinality(DOMAIN node.edges)>>
    \o saveEdgeItems(node.edges, SortedKeys(DOMAIN node.edges))

\* SVLocusNode::serialize, writing: ar & count & interval & edges.
serializeNode(node) ==
    <<node.count, node.interval.tid, node.interval.range.begin_pos,
      node.interval.range.end_pos, Cardinality(DOMAIN node.edges)>>
    \o saveEdgeItems(node.edges, SortedKeys(DOMAIN node.edges))

RECURSIVE saveNodes(_, _)
saveNodes(g, k) ==
    IF k > size(g) THEN <<>> ELSE serializeNode(g[k]) \o saveNodes(g, k + 1)

\* SVLocus::save: ar << _graph (and nothing else).
save(g, index) == <<size(g)>> \o saveNodes(g, 1)

\* Reading n (key, edge) pairs into a map; the result is the map and the rest.
RECURSIVE loadEdgeItems(_, _, _)
loadEdgeItems(ar, n, acc) ==
    IF n = 0 THEN [val |-> acc, rest |-> ar]
    ELSE loadEdgeItems(SubSeq(ar, 3, Len(ar)), n - 1,
                       MapInsert(acc, ar[1], [count |-> ar[2]]))

\* SVLocusNode::serialize, reading.
loadNode(ar) ==
    LET e == loadEdgeItems(SubSeq(ar, 6, Len(ar)), ar[5], NoEdges)
    IN  [val  |-> [count |-> ar[1], interval |-> GenomeInterval(ar[2], ar[3], ar[4]),
                   edges |-> e.val],
         rest |-> e.rest]

RECURSIVE loadNodes(_, _, _)
loadNodes(ar, n, acc) ==
    IF n = 0 THEN acc
    ELSE LET r == loadNode(ar)
         IN  loadNodes(r.rest, n - 1, Append(acc, r.val))

\* ar >> _graph: the vector's content is replaced by the archive's.
readGraph(g, ar) == loadNodes(Tail(ar), Head(ar), <<>>)

\* SVLocus::load: clear(), then ar >> _graph.
load(g, ar) == readGraph(clear(g), ar)

\* ------------------------------------------------------- GlobalJumpAligner
\* The score no allowed state has.
badVal == -10000

\* AlignState::index_t, in the order max3 and max4 number their arguments.
AlignState == <<"MATCH", "DELETE", "INSERT", "JUMP">>

\* The larger of three scores and which one it is; the first wins a tie.
max3(v0, v1, v2) ==
    LET first == IF v1 > v0 THEN [max |-> v1, ptr |-> 1] ELSE [max |-> v0, ptr |-> 0]
    IN  IF v2 > first.max THEN [max |-> v2, ptr |-> 2] ELSE first

max4(v0, v1, v2, v3) ==
    LET m3 == max3(v0, v1, v2)
    IN  IF v3 > m3.max THEN [max |-> v3, ptr |-> 3] ELSE m3

\* A score vector holds entry queryIndex at position queryIndex + 1.
\* The first row of either pass: the query falls off the start of the
\* reference, each base counting as a mismatch.
initScores(querySize, scores) ==
    [k \in 1 .. (querySize + 1) |->
        [match |-> (k - 1) * scores.mismatch, del |-> badVal, ins |-> badVal, jump |-> badVal]]

\* Entry 0 of a row as it would be if a start in MATCH were disallowed too.
rowHeadNoStart(old) == [match |-> badVal, del |-> badVal, ins |-> badVal, jump |-> old.jump]

\* Entry 0 of a row: match, del and ins are set, jump is left as it was.
rowHead(old) == [match |-> 0, del |-> badVal, ins |-> badVal, jump |-> old.jump]

\* The delete score of a pass 1 cell: the extension is added in the delete
\* block and again in the jump block.
updateDelete1(d, scores) == (d.max + scores.extend) + scores.extend

\* The delete score of a pass 2 cell.
updateDelete2(d, scores) == d.max + scores.extend

\* One cell of pass 1. prevQ and prevQ1 are (*prevSV)[queryIndex] and
\* (*prevSV)[queryIndex+1], thisQ is (*thisSV)[queryIndex].
cell1(prevQ, prevQ1, thisQ, same, scores) ==
    LET m == max3(prevQ.match, prevQ.del, prevQ.ins)
        d == max3(prevQ1.match + scores.open, prevQ1.del, prevQ1.ins)
        i == max3(thisQ.match + scores.open, thisQ.del, thisQ.ins)
        j == max4(prevQ1.match + scores.jump, badVal, prevQ1.ins + scores.jump, prevQ1.jump)
    IN  [score |-> [match |-> m.max + (IF same THEN scores.match ELSE scores.mismatch),
                    del |-> updateDelete1(d, scores),
                    ins |-> i.max + scores.extend,
                    jump |-> j.max],
         ptr |-> [match |-> AlignState[m.ptr + 1],
                  del |-> AlignState[d.ptr + 1],
                  ins |-> AlignState[i.ptr + 1],
                  jump |-> AlignState[j.ptr + 1]]]

\* One cell of pass 2.
cell2(prevQ, prevQ1, thisQ, same, scores) ==
    LET m == max4(prevQ.match, prevQ.del, prevQ.ins, prevQ.jump)
        d == max3(prevQ1.match + scores.open, prevQ1.del, prevQ1.ins)
        i == max4(thisQ.match + scores.open, thisQ.del, thisQ.ins, thisQ.jump)
    IN  [score |-> [match |-> m.max + (IF same THEN scores.match ELSE scores.mismatch),
                    del |-> updateDelete2(d, scores),
                    ins |-> i.max + scores.extend,
                    jump |-> prevQ1.jump],
         ptr |-> [match |-> AlignState[m.ptr + 1],
                  del |-> AlignState[d.ptr + 1],
                  ins |-> AlignState[i.ptr + 1],
                  jump |-> "JUMP"]]

\* The inner loop over the query: thisSV holds the entries written so far.
RECURSIVE fillRow(_, _, _, _, _, _, _)
fillRow(pass, prevSV, thisSV, headPtrs, refSym, query, scores) ==
    LET queryIndex == Len(thisSV) - 1
    IN  IF queryIndex = Len(query)
        THEN [sv |-> thisSV, ptr |-> headPtrs]
        ELSE LET same == query[queryIndex + 1] = refSym
                 c == IF pass = 1
                      THEN cell1(prevSV[queryIndex + 1], prevSV[queryIndex + 2],
                                 thisSV[queryIndex + 1], same, scores)
                      ELSE cell2(prevSV[queryIndex + 1], prevSV[queryIndex + 2],
                                 thisSV[queryIndex + 1], same, scores)
             IN  fillRow(pass, prevSV, Append(thisSV, c.score), Append(headPtrs, c.ptr),
                         refSym, query, scores)

\* BackTrace<ScoreType>::BackTrace
BackTrace == [max |-> 0, state |-> "MATCH", queryStart |-> 0, refStart |-> 0, isInit |-> FALSE]

\* "get backtrace info" as it would be if bt.isInit were never set.
updateBackTraceNoInit(bt, thisMax, refStart, queryStart) ==
    IF bt.isInit /\ thisMax <= bt.max
    THEN bt
    ELSE [bt EXCEPT !.max = thisMax, !.refStart = refStart, !.queryStart = queryStart]

\* "get backtrace info" as it would be if an equal score replaced the incumbent.
updateBackTraceOnTie(bt, thisMax, refStart, queryStart) ==
    IF bt.isInit /\ thisMax < bt.max
    THEN bt
    ELSE [bt EXCEPT !.max = thisMax, !.refStart = refStart,
                    !.queryStart = queryStart, !.isInit = TRUE]

\* "get backtrace info": the incumbent stays unless the new score is greater.
updateBackTrace(bt, thisMax, refStart, queryStart) ==
    IF bt.isInit /\ thisMax <= bt.max
    THEN bt
    ELSE [bt EXCEPT !.max = thisMax, !.refStart = refStart,
                    !.queryStart = queryStart, !.isInit = TRUE]

\* The outer loop of a pass over the reference. st.rows holds the rows done;
\* swapping makes the old prevSV the vector that is written.
RECURSIVE passRows(_, _, _, _, _)
passRows(pass, st, ref, query, scores) ==
    LET refIndex == Len(st.rows)
    IN  IF refIndex = Len(ref)
        THEN st
        ELSE LET r == fillRow(pass, st.thisSV, <<rowHead(st.prevSV[1])>>, <<>>,
                              ref[refIndex + 1], query, scores)
                 thisMax == r.sv[Len(query) + 1].match
             IN  passRows(pass,
                          [thisSV |-> r.sv,
                           prevSV |-> st.thisSV,
                           thisIs2 |-> ~st.thisIs2,
                           rows |-> Append(st.rows, r.sv),
                           ptrMat |-> Append(st.ptrMat, r.ptr),
                           bt |-> updateBackTrace(st.bt, thisMax, refIndex + 1, Len(query))],
                          ref, query, scores)

\* "also allow for the case where seq1 falls-off the end of the reference"
RECURSIVE fallOff(_, _, _, _, _, _)
fallOff(bt, thisSV, queryIndex, querySize, scores, refSize) ==
    IF queryIndex > querySize
    THEN bt
    ELSE fallOff(updateBackTrace(bt,
                                 thisSV[queryIndex + 1].match
                                     + (querySize - queryIndex) * scores.mismatch,
                                 refSize, queryIndex),
                 thisSV, queryIndex + 1, querySize, scores, refSize)

\* PtrVal::get
get(ptr, state) ==
    CASE state = "MATCH" -> ptr.match
      [] state = "DELETE" -> ptr.del
      [] state = "INSERT" -> ptr.ins
      [] OTHER -> ptr.jump

\* ALIGNPATH::path_segment()
NoSegment == [type |-> "NONE", length |-> 0]

\* AlignerUtil::updatePath: a change of type closes the open segment.
updatePath(apath, ps, atype) ==
    IF ps.type = atype
    THEN [apath |-> apath, ps |-> ps]
    ELSE [apath |-> IF ps.type # "NONE" THEN Append(apath, ps) ELSE apath,
          ps |-> [type |-> atype, length |-> 0]]

\* The traceback loop; unknown is set where the code asserts
\* "Unknown align state".
RECURSIVE traceback(_, _, _, _)
traceback(bt, apath, ps, _ptrMat) ==
    IF bt.queryStart > 0 /\ bt.refStart > 0
    THEN LET nextMatrix == get(_ptrMat[bt.refStart][bt.queryStart], bt.state)
             u == updatePath(apath, ps, bt.state)
             grown == [u.ps EXCEPT !.length = @ + 1]
         IN  CASE bt.state = "MATCH" ->
                    traceback([bt EXCEPT !.queryStart = @ - 1, !.refStart = @ - 1,
                                         !.state = nextMatrix],
                              u.apath, grown, _ptrMat)
               [] bt.state = "DELETE" ->
                    traceback([bt EXCEPT !.refStart = @ - 1, !.state = nextMatrix],
                              u.apath, grown, _ptrMat)
               [] bt.state = "INSERT" ->
                    traceback([bt EXCEPT !.queryStart = @ - 1, !.state = nextMatrix],
                              u.apath, grown, _ptrMat)
               [] OTHER ->
                    [bt |-> bt, apath |-> apath, ps |-> ps, unknown |-> TRUE]
    ELSE [bt |-> bt, apath |-> apath, ps |-> ps, unknown |-> FALSE]

\* std::reverse
RECURSIVE reverse(_)
reverse(s) == IF s = <<>> THEN <<>> ELSE Append(reverse(Tail(s)), Head(s))

\* A scratch vector as an earlier call left it: of what a call reads before
\* writing, only the jump score of entry 0 is there.
staleScores(querySize, stale) ==
    [k \in 1 .. (querySize + 1) |->
        [match |-> "stale", del |-> "stale", ins |-> "stale",
         jump |-> IF k = 1 THEN stale ELSE "stale"]]

\* The size the fall-off is taken against: both references.
refSizeOf(ref1, ref2) == Len(ref1) + Len(ref2)

\* The pointer matrix the traceback reads: the rows of ref1, then those of ref2.
ptrMatOf(_ptrMat1, _ptrMat2) == _ptrMat1 \o _ptrMat2

\* The traceback as it would start if the trailing soft-clip were left out.
trailingClipDropped(bt, querySize) == NoSegment

\* The open segment the traceback starts with: the trailing soft-clip, if any.
trailingClip(bt, querySize) ==
    IF bt.queryStart < querySize
    THEN [type |-> "SOFT_CLIP", length |-> querySize - bt.queryStart]
    ELSE NoSegment

\* The path as it would be closed if the leading soft-clip were left out.
finishPathNoLeadingClip(tb) ==
    reverse(IF tb.ps.type # "NONE" THEN Append(tb.apath, tb.ps) ELSE tb.apath)

\* What the traceback leaves is closed, the leading soft-clip added, and the
\* path reversed.
finishPath(tb) ==
    LET closed == IF tb.ps.type # "NONE" THEN Append(tb.apath, tb.ps) ELSE tb.apath
        clipped == IF tb.bt.queryStart # 0
                   THEN Append(closed, [type |-> "SOFT_CLIP", length |-> tb.bt.queryStart])
                   ELSE closed
    IN  reverse(clipped)

\* Pass 1, over ref1. _score1 is the vector initialised first; stale is what
\* _score2[0].jump holds on entry.
pass1(query, ref1, scores, stale) ==
    passRows(1,
             [thisSV |-> initScores(Len(query), scores),
              prevSV |-> staleScores(Len(query), stale),
              thisIs2 |-> FALSE,
              rows |-> <<>>, ptrMat |-> <<>>, bt |-> BackTrace],
             ref1, query, scores)

\* Pass 2, over ref2: the vector pass 1 wrote last is initialised again, and
\* bt is the one pass 1 left.
pass2(query, ref2, scores, p1) ==
    passRows(2,
             [thisSV |-> initScores(Len(query), scores),
              prevSV |-> p1.prevSV,
              thisIs2 |-> p1.thisIs2,
              rows |-> <<>>, ptrMat |-> <<>>, bt |-> p1.bt],
             ref2, query, scores)

\* The three assertions on the backtrace seed.
asserted(seed, querySize, refSize) ==
    seed.isInit /\ seed.refStart <= refSize /\ seed.queryStart <= querySize

\* The traceback from the seed, if the assertions let the call go on.
tracebackFrom(seed, querySize, refSize, _ptrMat) ==
    IF asserted(seed, querySize, refSize)
    THEN traceback(seed, <<>>, trailingClip(seed, querySize), _ptrMat)
    ELSE [bt |-> seed, apath |-> <<>>, ps |-> NoSegment, unknown |-> FALSE]

\* What a call leaves: its arguments, the rows and pointers of both passes,
\* the seed, and the result handed back.
AlignmentResult(query, ref1, ref2, scores, stale, p1, p2, seed, tb) ==
    [called |-> TRUE,
     query |-> query, ref1 |-> ref1, ref2 |-> ref2, scores |-> scores,
     staleBefore |-> stale,
     rows1 |-> p1.rows,
     pass1End |-> p1.thisSV,
     pass2Start |-> initScores(Len(query), scores),
     rows2 |-> p2.rows,
     _ptrMat1 |-> p1.ptrMat,
     _ptrMat2 |-> p2.ptrMat,
     seed |-> seed,
     abort |-> IF ~asserted(seed, Len(query), refSizeOf(ref1, ref2)) THEN "backtrace seed"
               ELSE IF tb.unknown THEN "Unknown align state"
               ELSE "none",
     score |-> seed.max,
     apath |-> finishPath(tb),
     alignStart |-> tb.bt.refStart,
     staleAfter |-> IF p2.thisIs2 THEN p2.thisSV[1].jump ELSE p2.prevSV[1].jump]

\* GlobalJumpAligner::align on non-empty sequences.
align(query, ref1, ref2, scores, stale) ==
    \E p1 \in {pass1(query, ref1, scores, stale)} :
    \E p2 \in {pass2(query, ref2, scores, p1)} :
    \E seed \in {fallOff(p2.bt, p2.thisSV, 0, Len(query), scores, refSizeOf(ref1, ref2))} :
    \E tb \in {tracebackFrom(seed, Len(query), refSizeOf(ref1, ref2),
                             ptrMatOf(p1.ptrMat, p2.ptrMat))} :
    \E result \in {AlignmentResult(query, ref1, ref2, scores, stale, p1, p2, seed, tb)} :
        /\ aln' = result
        /\ staleJump' = result.staleAfter

\* No call has been made, or the caller has dropped the result.
NoCall == [called |-> FALSE]

\* A call with an empty sequence stops at the first assertions.
EmptyCall(query, ref1, ref2, scores) ==
    [called |-> TRUE, query |-> query, ref1 |-> ref1, ref2 |-> ref2, scores |-> scores,
     abort |-> "empty"]

\* --------------------------------------------------------- SimpleAlignment
\* ALIGNPATH::align_t, the types a path is made of.
AlignTypes == {"MATCH", "INSERT", "DELETE", "SOFT_CLIP"}

\* ALIGNPATH::is_segment_type_read_length: the segment consumes read bases.
is_segment_type_read_length(type) == type \in {"MATCH", "INSERT", "SOFT_CLIP"}

\* ALIGNPATH::is_segment_type_ref_length: the segment consumes reference bases.
is_segment_type_ref_length(type) == type \in {"MATCH", "DELETE"}

\* ALIGNPATH::get_match_edge_segments: the indices (from 0) of the first and
\* the last match segment of the path, both the path's size if it has none.
get_match_edge_segments(path) ==
    LET matches == {i \in 0 .. (Len(path) - 1) : path[i + 1].type = "MATCH"}
    IN  IF matches = {}
        THEN <<Len(path), Len(path)>>
        ELSE <<CHOOSE i \in matches : \A j \in matches : i <= j,
               CHOOSE i \in matches : \A j \in matches : j <= i>>

\* The branch of the loop that adds a match, as it would be if the segment
\* were always pushed.
pushMatchNoMerge(path, ps) == Append(path, [ps EXCEPT !.type = "MATCH"])

\* The branch of the loop that adds a match: the last segment grows if it is
\* a match, else the segment is pushed with its type set to MATCH.
pushMatch(path, ps) ==
    IF path # <<>> /\ path[Len(path)].type = "MATCH"
    THEN [path EXCEPT ![Len(path)].length = @ + ps.length]
    ELSE Append(path, [ps EXCEPT !.type = "MATCH"])

\* The loop of matchifyEdgeSegmentType from segment i on.
RECURSIVE matchifyFrom(_, _, _, _, _, _, _)
matchifyFrom(al, segmentType, isMatchLeadingEdge, isMatchTrailingEdge, ends, i, al2) ==
    IF i >= Len(al.path)
    THEN al2
    ELSE LET ps == al.path[i + 1]
             isLeadingEdgeSegment == i < ends[1]
             isTrailingEdgeSegment == i > ends[2]
             isTargetType == ps.type = segmentType
             isCandidateEdge == \/ (isMatchLeadingEdge /\ isLeadingEdgeSegment)
                                \/ (isMatchTrailingEdge /\ isTrailingEdgeSegment)
             isEdgeTarget == isCandidateEdge /\ isTargetType
             pos == IF isEdgeTarget /\ isLeadingEdgeSegment
                    THEN al2.pos - ps.length
                    ELSE al2.pos
             path == IF isEdgeTarget \/ ps.type = "MATCH"
                     THEN pushMatch(al2.path, ps)
                     ELSE Append(al2.path, ps)
         IN  matchifyFrom(al, segmentType, isMatchLeadingEdge, isMatchTrailingEdge, ends,
                          i + 1, [al2 EXCEPT !.pos = pos, !.path = path])

\* matchifyEdgeSegmentType, called with a read-length segment type.
matchifyEdgeSegmentType(al, segmentType, isMatchLeadingEdge, isMatchTrailingEdge) ==
    matchifyFrom(al, segmentType, isMatchLeadingEdge, isMatchTrailingEdge,
                 get_match_edge_segments(al.path), 0,
                 [is_fwd_strand |-> al.is_fwd_strand, tid |-> al.tid, pos |-> al.pos,
                  path |-> <<>>])

\* The loop of matchifyEdgeSoftClipRefRange from segment i on.
RECURSIVE refRangeFrom(_, _, _, _, _)
refRangeFrom(path, ends, i, beginPos, endPos) ==
    IF i >= Len(path)
    THEN [begin_pos |-> beginPos, end_pos |-> endPos]
    ELSE LET ps == path[i + 1]
             isLeadingEdgeSegment == i < ends[1]
             isTrailingEdgeSegment == i > ends[2]
             isEdgeTarget == isLeadingEdgeSegment \/ isTrailingEdgeSegment
         IN  IF isEdgeTarget
             THEN IF is_segment_type_read_length(ps.type)
                  THEN IF isLeadingEdgeSegment
                       THEN refRangeFrom(path, ends, i + 1, beginPos - ps.length, endPos)
                       ELSE refRangeFrom(path, ends, i + 1, beginPos, endPos + ps.length)
                  ELSE refRangeFrom(path, ends, i + 1, beginPos, endPos)
             ELSE IF is_segment_type_ref_length(ps.type)
                  THEN refRangeFrom(path, ends, i + 1, beginPos, endPos + ps.length)
                  ELSE refRangeFrom(path, ends, i + 1, beginPos, endPos)

\* matchifyEdgeSoftClipRefRange
matchifyEdgeSoftClipRefRange(al) ==
    refRangeFrom(al.path, get_match_edge_segments(al.path), 0, al.pos, al.pos)

\* No function of the file has been called.
NoSimpleCall == [op |-> "none"]

\* -------------------------------------------------- SimpleAlignment inputs
\* The longest path an alignment is given.
MaxPathLen == 3

SegmentLengths == {1, 2}

PathSegments == [type : AlignTypes, length : SegmentLengths]

PathsUpTo(n) == UNION {[1 .. k -> PathSegments] : k \in 0 .. n}

\* The alignments the functions are called with.
SimpleAlignments ==
    [is_fwd_strand : BOOLEAN, tid : {3}, pos : {10}, path : PathsUpTo(MaxPathLen)]

\* -------------------------------------------------------- SVLocusAssembler
\* The defaults the constructor sets.
wordLength_ == 37

maxWordLength_ == 65

minContigLength_ == 15

minSeedReads_ == 2

maxAssemblyIterations_ == 50

\* A read of the cluster: the length of its sequence, and whether an assembly
\* has used it.
ShadowRead(length) == [length |-> length, used |-> FALSE]

\* No call of assembleSVLocus is under way.
Idle == [pc |-> "idle"]

unusedReads(reads) == {n \in DOMAIN reads : ~reads[n].used}

\* The unused reads a word of wordLength bases occurs in.
contributing(reads, wordLength) ==
    {n \in unusedReads(reads) : reads[n].length >= wordLength}

\* buildContigs finds a seed only if enough reads contribute words
\* (variant: one contributing read is enough).
hasSeedOneRead(reads, wordLength) ==
    Cardinality(contributing(reads, wordLength)) >= 1

hasSeed(reads, wordLength) ==
    Cardinality(contributing(reads, wordLength)) >= minSeedReads_

\* The reads the extension of the seed was supported by are marked used.
markUsed(reads, support) ==
    [n \in DOMAIN reads |->
        IF n \in support THEN [reads[n] EXCEPT !.used = TRUE] ELSE reads[n]]

Longest(lengths) == CHOOSE l \in lengths : \A k \in lengths : k <= l

\* The length of the contig walk() grows the seed to: the seed is one word,
\* and the supporting reads carry it to the longest of them.
contigLength(reads, support, wordLength) ==
    Longest({wordLength} \cup {reads[n].length : n \in support})

\* A contig is kept only if it is long enough; the assembly holds the lengths
\* of the contigs kept.
emit(contigs, length) ==
    IF length >= minContigLength_ THEN contigs \cup {length} ELSE contigs

\* Another round is started while unused reads remain and the iteration
\* budget lasts (variant: the budget is not looked at).
moreRoundsNoCap(reads, iterations) ==
    unusedReads(reads) # {}

moreRounds(reads, iterations) ==
    /\ unusedReads(reads) # {}
    /\ iterations < maxAssemblyIterations_

\* The state a call of assembleSVLocus starts in, and the state it is in after
\* a round that built a contig from the reads in support.
startAssembly(reads) ==
    [pc         |-> IF moreRounds(reads, 0) THEN "build" ELSE "done",
     input      |-> Len(reads),
     reads      |-> reads,
     wordLength |-> wordLength_,
     iterations |-> 0,
     contigs    |-> {}]

roundDone(a, support) ==
    LET reads == markUsed(a.reads, support)
        iterations == a.iterations + 1
    IN  [a EXCEPT
            !.pc = IF moreRounds(reads, iterations) THEN "build" ELSE "done",
            !.reads = reads,
            !.wordLength = wordLength_,
            !.iterations = iterations,
            !.contigs = emit(@, contigLength(a.reads, support, a.wordLength))]

\* buildContigs found no seed: the next word length is tried, if there is one.
nextWordLength(a) ==
    IF a.wordLength < maxWordLength_
    THEN [a EXCEPT !.wordLength = @ + 1]
    ELSE [a EXCEPT !.pc = "done"]

\* ---------------------------------------------------------- assembler inputs
MaxReads == 3

\* Reads too short for any word, and reads long enough for the shorter words.
ReadLengths == {30, 50}

ReadSets == UNION {[1 .. k -> {ShadowRead(l) : l \in ReadLengths}] : k \in 0 .. MaxReads}

\* ----------------------------------------------------------- aligner inputs
MaxQueryLen == 3

MaxRefLen == 3

Bases == {"A", "C"}

SeqsUpTo(n) == UNION {[1 .. k -> Bases] : k \in 0 .. n}

\* AlignmentScores<int> and the jump score the aligner is constructed with.
ScoreSets ==
    {[match |-> 2, mismatch |-> -4, open |-> -5, extend |-> -1, jump |-> -3],
     [match |-> 1, mismatch |-> -1, open |-> -1, extend |-> -1, jump |-> -1],
     [match |-> 2, mismatch |-> -8, open |-> -2, extend |-> -1, jump |-> -3]}

\* Scores whose penalties are large against the sentinel: two mismatches cost
\* more than badVal.
HeavyScoreSets ==
    {[match |-> 2, mismatch |-> -6000, open |-> -5, extend |-> -1, jump |-> -3],
     [match |-> 1, mismatch |-> -4, open |-> -6000, extend |-> -1, jump |-> -3]}

\* ------------------------------------------------------------------ inputs
\* The intervals addNode is called with.
Intervals == {<<0, 0, 10>>, <<1, 5, 20>>}

\* Graphs of other SVLocus instances, each built by the operations above.
OneNode == addNode(<<>>, 0, 0, 10)

TwoLinked == linkNodes(addNode(OneNode, 1, 5, 20), 0, 1)

\* Two linked nodes whose edge has been merged into until its count is the
\* largest an unsigned short holds.
TwoHeavy ==
    [k \in 1 .. 2 |->
        [TwoLinked[k] EXCEPT !.edges =
            [j \in DOMAIN @ |-> SVLocusEdge(CountModulus - 1)]]]

ThreeChain == linkNodes(linkNodes(addNode(TwoLinked, 0, 0, 10), 1, 2), 2, 2)

\* The other loci copyLocus copies from and save archives are written from.
FromLoci ==
    {[graph |-> g, index |-> i] : g \in {<<>>, OneNode, TwoLinked, TwoHeavy, ThreeChain},
                                  i \in LocusIndices}

\* ------------------------------------------------------------------ actions
Init ==
    /\ _graph = <<>>
    /\ _index = 0
    /\ observed = {}
    /\ events = <<>>
    /\ last = "init"
    /\ ret = 0
    /\ aborted = FALSE
    /\ merges = 0
    /\ staleJump = 0
    /\ aln = NoCall
    /\ asm = Idle
    /\ sa = NoSimpleCall

\* A call that ran to its end, delivering evs and returning r.
Returned(evs, r) ==
    /\ events' = evs
    /\ observed' = Observe(observed, evs)
    /\ ret' = r
    /\ aborted' = FALSE

AddNodeCall(tid, beginPos, endPos) ==
    /\ last' = "addNode"
    /\ ~aborted
    /\ LocusOnly
    /\ size(_graph) < MaxNodes
    /\ _graph' = addNode(_graph, tid, beginPos, endPos)
    /\ Returned(<<notifyAdd(addNodeIndex(_graph))>>, addNodeIndex(_graph))
    /\ UNCHANGED <<_index, merges>>

AddNode == \E iv \in Intervals : AddNodeCall(iv[1], iv[2], iv[3])

\* The number of edges of the graph, an edge and its reverse counting once.
EdgeCount(g) ==
    Cardinality({p \in (0 .. (size(g) - 1)) \X (0 .. (size(g) - 1)) :
                    p[1] <= p[2] /\ p[2] \in DOMAIN getNode(g, p[1]).edges})

\* An assertion that fails aborts before anything is written.
LinkNodesCall(a, b) ==
    /\ last' = "linkNodes"
    /\ ~aborted
    /\ LocusOnly
    /\ EdgeCount(_graph) < MaxEdges
    /\ IF linkNodesAsserts(_graph, a, b)
       THEN /\ _graph' = linkNodes(_graph, a, b)
            /\ aborted' = FALSE
       ELSE /\ _graph' = _graph
            /\ aborted' = TRUE
    /\ ret' = 0
    /\ events' = <<>>
    /\ UNCHANGED <<_index, observed, merges>>

LinkNodes == \E a \in 0 .. size(_graph), b \in 0 .. size(_graph) : LinkNodesCall(a, b)

ClearNodeEdgesCall(nodePtr) ==
    /\ last' = "clearNodeEdges"
    /\ ~aborted
    /\ LocusOnly
    /\ ValidIndex(_graph, nodePtr)
    /\ _graph' = clearNodeEdges(_graph, nodePtr)
    /\ Returned(<<>>, 0)
    /\ UNCHANGED <<_index, merges>>

ClearNodeEdges == \E i \in 0 .. (size(_graph) - 1) : ClearNodeEdgesCall(i)

CopyLocusCall(fromGraph) ==
    /\ last' = "copyLocus"
    /\ ~aborted
    /\ LocusOnly
    /\ size(_graph) + size(fromGraph) <= MaxNodes
    /\ _graph' = copyLocus(_graph, fromGraph)
    /\ Returned(copyLocusEvents(size(_graph), size(fromGraph)), 0)
    /\ UNCHANGED <<_index, merges>>

CopyLocus == \E fromGraph \in {from.graph : from \in FromLoci} : CopyLocusCall(fromGraph)

MergeNodeCall(fromIndex, toIndex) ==
    /\ last' = "mergeNode"
    /\ ~aborted
    /\ LocusOnly
    /\ ValidIndex(_graph, fromIndex)
    /\ ValidIndex(_graph, toIndex)
    /\ fromIndex # toIndex
    /\ merges < MaxMerges
    /\ _graph' = mergeNode(_graph, fromIndex, toIndex)
    /\ Returned(eraseNodeEvents(size(_graph), fromIndex), 0)
    /\ merges' = merges + 1
    /\ UNCHANGED _index

MergeNode ==
    \E f \in 0 .. (size(_graph) - 1), t \in 0 .. (size(_graph) - 1) : MergeNodeCall(f, t)

EraseNodeCall(nodePtr) ==
    /\ last' = "eraseNode"
    /\ ~aborted
    /\ LocusOnly
    /\ ValidIndex(_graph, nodePtr)
    /\ _graph' = eraseNode(_graph, nodePtr)
    /\ Returned(eraseNodeEvents(size(_graph), nodePtr), 0)
    /\ UNCHANGED <<_index, merges>>

EraseNode == \E i \in 0 .. (size(_graph) - 1) : EraseNodeCall(i)

Clear ==
    /\ last' = "clear"
    /\ ~aborted
    /\ LocusOnly
    /\ _graph' = clear(_graph)
    /\ Returned(clearEvents(size(_graph)), 0)
    /\ UNCHANGED <<_index, merges>>

\* The archives save writes for the other loci.
Archives == {save(from.graph, from.index) : from \in FromLoci}

LoadCall(ar) ==
    /\ last' = "load"
    /\ ~aborted
    /\ LocusOnly
    /\ _graph' = load(_graph, ar)
    /\ Returned(clearEvents(size(_graph)), 0)
    /\ UNCHANGED <<_index, merges>>

Load == \E ar \in Archives : LoadCall(ar)

\* The mutations of one locus.
Next ==
    \/ AddNode
    \/ LinkNodes
    \/ ClearNodeEdges
    \/ CopyLocus
    \/ MergeNode
    \/ EraseNode
    \/ Clear

Spec == Init /\ [][Next]_vars

\* The locus grown by addNode and linkNodes alone.
NextLink ==
    \/ AddNode
    \/ LinkNodes

SpecLink == Init /\ [][NextLink]_vars

\* The operations that announce nodes to the observer.
NextObserver ==
    \/ AddNode
    \/ CopyLocus
    \/ EraseNode
    \/ MergeNode
    \/ Clear
    \/ Load

SpecObserver == Init /\ [][NextObserver]_vars

\* A locus that is built, cleared and loaded from archives.
NextSerial ==
    \/ AddNode
    \/ LinkNodes
    \/ Clear
    \/ Load

SpecSerial == Init /\ [][NextSerial]_vars

\* ---------------------------------------------------------- aligner actions
AlignCall(query, ref1, ref2, scores) ==
    /\ IF query = <<>> \/ ref1 = <<>> \/ ref2 = <<>>
       THEN /\ aln' = EmptyCall(query, ref1, ref2, scores)
            /\ UNCHANGED staleJump
       ELSE align(query, ref1, ref2, scores, staleJump)
    /\ AlignerOnly

\* The caller holds no result of an earlier call.
Align ==
    /\ ~aln.called
    /\ \E query \in SeqsUpTo(MaxQueryLen), ref1 \in SeqsUpTo(MaxRefLen),
          ref2 \in SeqsUpTo(MaxRefLen), scores \in ScoreSets :
           AlignCall(query, ref1, ref2, scores)

\* The caller is done with the result; the aligner keeps its scratch.
\* align() clears the result it is handed before anything else.
Release ==
    /\ aln.called
    /\ aln.abort # "empty"
    /\ aln' = NoCall
    /\ UNCHANGED staleJump
    /\ AlignerOnly

NextAlign ==
    \/ Align
    \/ Release

SpecAlign == Init /\ [][NextAlign]_vars

\* The aligner constructed with heavy penalties.
AlignHeavy ==
    /\ ~aln.called
    /\ \E query \in SeqsUpTo(MaxQueryLen), ref1 \in SeqsUpTo(MaxRefLen),
          ref2 \in SeqsUpTo(MaxRefLen), scores \in HeavyScoreSets :
           AlignCall(query, ref1, ref2, scores)

NextAlignHeavy ==
    \/ AlignHeavy
    \/ Release

SpecAlignHeavy == Init /\ [][NextAlignHeavy]_vars

\* -------------------------------------------------------- assembler actions
\* assembleSVLocus is called with the reads of a cluster.
AssembleCall ==
    /\ asm.pc = "idle"
    /\ \E reads \in ReadSets : asm' = startAssembly(reads)
    /\ AssemblerOnly

\* buildContigs finds a seed at the current word length and extends it.
BuildContigs ==
    /\ asm.pc = "build"
    /\ hasSeed(asm.reads, asm.wordLength)
    /\ \E support \in SUBSET contributing(asm.reads, asm.wordLength) :
           asm' = roundDone(asm, support)
    /\ AssemblerOnly

\* buildContigs finds no seed at the current word length.
BuildFails ==
    /\ asm.pc = "build"
    /\ ~hasSeed(asm.reads, asm.wordLength)
    /\ asm' = nextWordLength(asm)
    /\ AssemblerOnly

\* assembleSVLocus returns the assembly to its caller.
AssembleReturn ==
    /\ asm.pc = "done"
    /\ asm' = Idle
    /\ AssemblerOnly

NextAssemble ==
    \/ AssembleCall
    \/ BuildContigs
    \/ BuildFails
    \/ AssembleReturn

SpecAssemble == Init /\ [][NextAssemble]_vars

\* A call that has started runs on: the loop is sequential code with nothing
\* to wait for.
SpecAssembleFair ==
    /\ SpecAssemble
    /\ WF_vars(BuildContigs)
    /\ WF_vars(BuildFails)

\* -------------------------------------------------- SimpleAlignment actions
\* matchifyEdgeSegmentType is called; a segment type that is not read-length
\* fails its assertion.
MatchifyEdgeSegmentType ==
    /\ sa.op = "none"
    /\ \E al \in SimpleAlignments, segmentType \in AlignTypes,
          isMatchLeadingEdge \in BOOLEAN, isMatchTrailingEdge \in BOOLEAN :
           sa' = [op |-> "matchifyEdgeSegmentType",
                  al |-> al,
                  segmentType |-> segmentType,
                  isMatchLeadingEdge |-> isMatchLeadingEdge,
                  isMatchTrailingEdge |-> isMatchTrailingEdge,
                  asserted |-> is_segment_type_read_length(segmentType),
                  al2 |-> IF is_segment_type_read_length(segmentType)
                          THEN matchifyEdgeSegmentType(al, segmentType, isMatchLeadingEdge,
                                                       isMatchTrailingEdge)
                          ELSE al]
    /\ AlignmentOnly

\* matchifyEdgeSoftClipRefRange is called.
MatchifyEdgeSoftClipRefRange ==
    /\ sa.op = "none"
    /\ \E al \in SimpleAlignments :
           sa' = [op |-> "matchifyEdgeSoftClipRefRange",
                  al |-> al,
                  range |-> matchifyEdgeSoftClipRefRange(al)]
    /\ AlignmentOnly

\* The caller is done with what it was handed.
ReleaseSimple ==
    /\ sa.op # "none"
    /\ sa' = NoSimpleCall
    /\ AlignmentOnly

NextSimple ==
    \/ MatchifyEdgeSegmentType
    \/ MatchifyEdgeSoftClipRefRange
    \/ ReleaseSimple

SpecSimple == Init /\ [][NextSimple]_vars

\* ---------------------------------------------------------------- properties
Nodes(g) == 0 .. (size(g) - 1)

HasEdge(g, a, b) == b \in DOMAIN getNode(g, a).edges

\* The count of the edge a->b, an absent edge counting as 0.
EdgeCountOr0(g, a, b) == IF HasEdge(g, a, b) THEN getNode(g, a).edges[b].count ELSE 0

\* Every key is a node of the graph and every edge has its reverse, with the same count.
EdgeSymmetric(g) ==
    \A a \in Nodes(g) : \A b \in DOMAIN getNode(g, a).edges :
        /\ ValidIndex(g, b)
        /\ HasEdge(g, b, a)
        /\ getNode(g, b).edges[a].count = getNode(g, a).edges[b].count

\* The index a node has after node i has left the vector.
Shift(k, i) == IF k > i THEN k - 1 ELSE k

\* The positions of the event sequence evs that hold the event e.
Positions(evs, e) == {p \in DOMAIN evs : evs[p] = e}

\* C1: after any sequence of addNode and linkNodes calls (a linkNodes call
\* whose assertions fail ends the run and writes nothing), every edge-map key
\* is a valid node index and every edge A->B has a reverse edge B->A with the
\* same count, so checkState finds no asymmetric edge.
C1_EdgeSymmetryAfterLink == EdgeSymmetric(_graph) /\ checkState(_graph)

\* C1's case: linkNodes has just linked two different nodes.
C1_Witness ==
    /\ last = "linkNodes"
    /\ ~aborted
    /\ \E a \in Nodes(_graph) : \E b \in Nodes(_graph) : a # b /\ HasEdge(_graph, a, b)

\* C2: after every operation the node indices the observer has seen added and
\* not deleted since are exactly 0 .. size()-1, and every event of the
\* operation carries the graph's locus index.
C2_ObserverIndexValid ==
    /\ observed = Nodes(_graph)
    /\ \A p \in DOMAIN events : events[p].locus = _index

\* C3: eraseNode(i) on a graph of size n leaves n-1 nodes; the node formerly at
\* j > i is at j-1 and the nodes below i keep their index, all with count and
\* interval unchanged; every edge key k > i of a surviving node is now k-1,
\* with its edge unchanged; the events are one delete for node i and, for each
\* renumbered node j, one add of j-1 followed by one delete of j.
C3_ErasePost(i) ==
    LET g == _graph
        h == _graph'
        n == size(g)
        evs == events'
    IN  /\ size(h) = n - 1
        /\ \A j \in Nodes(g) \ {i} :
            LET old == getNode(g, j)
                new == getNode(h, Shift(j, i))
            IN  /\ new.count = old.count
                /\ new.interval = old.interval
                /\ DOMAIN new.edges = {Shift(k, i) : k \in DOMAIN old.edges \ {i}}
                /\ \A k \in DOMAIN old.edges \ {i} : new.edges[Shift(k, i)] = old.edges[k]
        /\ Len(evs) = 1 + 2 * (n - 1 - i)
        /\ Cardinality(Positions(evs, [isAdd |-> FALSE, locus |-> _index, node |-> i])) = 1
        /\ \A j \in (i + 1) .. (n - 1) :
            LET adds == Positions(evs, [isAdd |-> TRUE, locus |-> _index, node |-> j - 1])
                dels == Positions(evs, [isAdd |-> FALSE, locus |-> _index, node |-> j])
            IN  /\ Cardinality(adds) = 1
                /\ Cardinality(dels) = 1
                /\ \A p \in adds : \A q \in dels : p < q

C4_MergePost(f, t) ==
    LET g == _graph
        h == _graph'
        others == Nodes(g) \ {f, t}
        t2 == Shift(t, f)
    IN  /\ size(h) = size(g) - 1
        /\ \A x \in others :
            LET x2 == Shift(x, f)
                sum == EdgeCountOr0(g, t, x) + EdgeCountOr0(g, f, x)
                rsum == EdgeCountOr0(g, x, t) + EdgeCountOr0(g, x, f)
            IN  /\ HasEdge(h, t2, x2) <=> (HasEdge(g, t, x) \/ HasEdge(g, f, x))
                /\ HasEdge(h, x2, t2) <=> (HasEdge(g, x, t) \/ HasEdge(g, x, f))
                /\ HasEdge(h, t2, x2) => getNode(h, t2).edges[x2].count = sum
                /\ HasEdge(h, x2, t2) => getNode(h, x2).edges[t2].count = rsum
        /\ HasEdge(h, t2, t2) <=> HasEdge(g, t, t)
        /\ EdgeCountOr0(h, t2, t2) = EdgeCountOr0(g, t, t)
        /\ \A x \in others : \A y \in others :
            /\ HasEdge(h, Shift(x, f), Shift(y, f)) <=> HasEdge(g, x, y)
            /\ EdgeCountOr0(h, Shift(x, f), Shift(y, f)) = EdgeCountOr0(g, x, y)
        /\ getNode(h, t2).count = getNode(g, t).count

C4_MergeSumsCounts ==
    [][\A f \in Nodes(_graph) : \A t \in Nodes(_graph) :
          MergeNodeCall(f, t) => C4_MergePost(f, t)]_vars

\* C5: in every state reached by addNode, linkNodes, mergeNode, eraseNode,
\* clearNodeEdges (and copyLocus, clear) with valid arguments, every edge
\* key is a valid index and the edge relation is symmetric with equal counts;
\* clearNodeEdges(i) keeps the size and leaves no edge to or from node i.
C5_ClearEdgesPost(i) ==
    /\ size(_graph') = size(_graph)
    /\ DOMAIN getNode(_graph', i).edges = {}
    /\ \A x \in Nodes(_graph') : ~HasEdge(_graph', x, i)

C6_CopyPost(fromGraph) ==
    LET g == _graph
        h == _graph'
        n == size(g)
        m == size(fromGraph)
    IN  /\ size(h) = n + m
        /\ \A k \in Nodes(g) : getNode(h, k) = getNode(g, k)
        /\ \A k \in Nodes(fromGraph) :
            LET src == getNode(fromGraph, k)
                new == getNode(h, n + k)
            IN  /\ new.count = src.count
                /\ new.interval = src.interval
                /\ DOMAIN new.edges = {t + n : t \in DOMAIN src.edges}
                /\ \A t \in DOMAIN src.edges : new.edges[t + n] = src.edges[t]
        /\ n = 0 => h = fromGraph

C6_CopyOffsets ==
    [][\A from \in FromLoci : CopyLocusCall(from.graph) => C6_CopyPost(from.graph)]_vars

\* C6's case: copyLocus has appended a node with an edge to a non-empty graph.
C6_Witness ==
    /\ last = "copyLocus"
    /\ events # <<>>
    /\ events[1].node >= 1
    /\ DOMAIN getNode(_graph, size(_graph) - 1).edges # {}

\* C7: addNode(tid, begin, end) on a graph of size n returns n and makes the
\* size n+1; the new node has count 1, the given interval and no edges; nodes
\* 0..n-1 are unchanged; exactly one event, {add, locus index, n}, is delivered.
C7_AddPost(tid, beginPos, endPos) ==
    LET g == _graph
        h == _graph'
        n == size(g)
    IN  /\ ret' = n
        /\ size(h) = n + 1
        /\ getNode(h, n).count = 1
        /\ getNode(h, n).interval.tid = tid
        /\ getNode(h, n).interval.range.begin_pos = beginPos
        /\ getNode(h, n).interval.range.end_pos = endPos
        /\ DOMAIN getNode(h, n).edges = {}
        /\ \A k \in Nodes(g) : getNode(h, k) = getNode(g, k)
        /\ events' = <<[isAdd |-> TRUE, locus |-> _index, node |-> n]>>

C7_AddNodeAppends ==
    [][\A iv \in Intervals : AddNodeCall(iv[1], iv[2], iv[3]) => C7_AddPost(iv[1], iv[2], iv[3])]_vars

\* C7's case: addNode has appended to a graph that already held linked nodes.
C7_Witness ==
    /\ last = "addNode"
    /\ ret >= 2
    /\ DOMAIN getNode(_graph, 0).edges # {}

\* C8: linkNodes(a, b) aborts when a or b is no valid index or an edge a->b or
\* b->a exists, and then no edge map has been written; otherwise it adds the
\* entries a->b and b->a, each with count 1, and changes nothing else.
C8_LinkPost(a, b) ==
    LET g == _graph
        h == _graph'
        bad == \/ ~ValidIndex(g, a)
               \/ ~ValidIndex(g, b)
               \/ HasEdge(g, a, b)
               \/ HasEdge(g, b, a)
    IN  /\ bad => aborted' /\ h = g
        /\ ~bad =>
            /\ ~aborted'
            /\ size(h) = size(g)
            /\ \A x \in Nodes(g) :
                LET old == getNode(g, x)
                    new == getNode(h, x)
                    added == (IF x = a THEN {b} ELSE {}) \cup (IF x = b THEN {a} ELSE {})
                IN  /\ new.count = old.count
                    /\ new.interval = old.interval
                    /\ DOMAIN new.edges = DOMAIN old.edges \cup added
                    /\ \A k \in DOMAIN old.edges : new.edges[k] = old.edges[k]
                    /\ \A k \in added : new.edges[k].count = 1
        /\ events' = <<>> /\ observed' = observed /\ _index' = _index

C8_LinkNodesContract ==
    [][\A a \in 0 .. size(_graph) : \A b \in 0 .. size(_graph) :
          LinkNodesCall(a, b) => C8_LinkPost(a, b)]_vars

\* C8's case: a linkNodes call has aborted on a graph that holds an edge.
C8_Witness ==
    /\ last = "linkNodes"
    /\ aborted
    /\ \E a \in Nodes(_graph) : DOMAIN getNode(_graph, a).edges # {}

\* C9: after T.load(archive of G), for any target T, T's nodes are G's: the
\* same size and, per index, the same count, interval and edge map; and what
\* save writes for the graph at hand reads back as that graph into any target.
C9_RoundTrip ==
    /\ load(<<>>, save(_graph, _index)) = _graph
    /\ load(_graph, save(_graph, _index)) = _graph

C9_LoadResets ==
    /\ []C9_RoundTrip
    /\ [][\A from \in FromLoci :
            LoadCall(save(from.graph, from.index)) => _graph' = from.graph]_vars

\* C9's case: load has run on a graph that held nodes, from an archive with edges.
C9_Witness ==
    /\ last = "load"
    /\ events # <<>>
    /\ \E a \in Nodes(_graph) : DOMAIN getNode(_graph, a).edges # {}

\* C10: loading the archive of a graph whose locus index is L gives a graph
\* whose locus index is L, whatever the target's index was.
C10_LoadRestoresIndex ==
    [][\A from \in FromLoci :
          LoadCall(save(from.graph, from.index)) => _index' = from.index]_vars


\* ------------------------------------------------------ aligner properties
\* The call returned: no assertion stopped it.
Returns == aln.called /\ aln.abort = "none"

IsSubstring(q, r) ==
    \E o \in 0 .. (Len(r) - Len(q)) : SubSeq(r, o + 1, o + Len(q)) = q

PenaltiesNegative(scores) ==
    /\ scores.match > 0
    /\ scores.mismatch < 0
    /\ scores.open < 0
    /\ scores.extend < 0
    /\ scores.jump < 0

\* C11: a non-empty query that is a contiguous substring of ref1, aligned
\* with a positive match score and negative penalties, comes back as one
\* MATCH segment of the query's length and nothing else, with score
\* |query| x match.
C11_ExactMatchInRef1 ==
    (/\ aln.called
     /\ aln.query # <<>> /\ aln.ref1 # <<>> /\ aln.ref2 # <<>>
     /\ PenaltiesNegative(aln.scores)
     /\ IsSubstring(aln.query, aln.ref1))
    => /\ aln.abort = "none"
       /\ aln.apath = <<[type |-> "MATCH", length |-> Len(aln.query)]>>
       /\ aln.score = Len(aln.query) * aln.scores.match

\* A two-base query found at the end of a longer ref1 has been aligned.
C11_Witness ==
    /\ Returns
    /\ Len(aln.query) = 2
    /\ Len(aln.ref1) > 2
    /\ SubSeq(aln.ref1, Len(aln.ref1) - 1, Len(aln.ref1)) = aln.query
    /\ ~IsSubstring(aln.query, SubSeq(aln.ref1, 1, Len(aln.ref1) - 1))
    /\ aln.apath = <<[type |-> "MATCH", length |-> 2]>>
    /\ aln.alignStart = Len(aln.ref1) - 2

IsPrefixOf(s, r) == Len(s) <= Len(r) /\ SubSeq(r, 1, Len(s)) = s

IsSuffixOf(s, r) == Len(s) <= Len(r) /\ SubSeq(r, Len(r) - Len(s) + 1, Len(r)) = s

BasesOf(s) == {s[k] : k \in DOMAIN s}

\* The query is its first k bases, the end of ref1, followed by the start of
\* ref2, neither part has a base in common with the other reference, and the
\* jump costs no more than a mismatch: no alignment to one reference scores
\* as high as the two matches joined by the jump.
SpansBreakpoint(k) ==
    /\ k \in 1 .. (Len(aln.query) - 1)
    /\ IsSuffixOf(SubSeq(aln.query, 1, k), aln.ref1)
    /\ IsPrefixOf(SubSeq(aln.query, k + 1, Len(aln.query)), aln.ref2)
    /\ BasesOf(SubSeq(aln.query, 1, k)) \cap BasesOf(aln.ref2) = {}
    /\ BasesOf(SubSeq(aln.query, k + 1, Len(aln.query))) \cap BasesOf(aln.ref1) = {}
    /\ aln.scores.jump >= aln.scores.mismatch

\* C12: a query made of the end of ref1 followed by the start of ref2, which
\* no single reference explains as well, is aligned as a match of the first
\* part, one jump and a match of the second part: every query base lies in
\* a MATCH segment, the score is (|prefix| + |suffix|) x match + jumpScore,
\* and alignStart is where the first part starts in ref1.
C12_BreakpointSpanning ==
    \A k \in 1 .. MaxQueryLen + 1 :
        (aln.called /\ aln.abort # "empty" /\ SpansBreakpoint(k))
        => /\ aln.abort = "none"
           /\ aln.score = Len(aln.query) * aln.scores.match + aln.scores.jump
           /\ \A n \in DOMAIN aln.apath : aln.apath[n].type = "MATCH"
           /\ aln.alignStart = Len(aln.ref1) - k

\* The query is a part that matches ref2 up to its last base, followed by k
\* bases that occur in neither reference.
TrailsOff(k) ==
    /\ k \in 1 .. (Len(aln.query) - 1)
    /\ IsSuffixOf(SubSeq(aln.query, 1, Len(aln.query) - k), aln.ref2)
    /\ BasesOf(SubSeq(aln.query, Len(aln.query) - k + 1, Len(aln.query)))
           \cap (BasesOf(aln.ref1) \cup BasesOf(aln.ref2)) = {}

\* The last segment of the path is a soft-clip of k bases and each of them is
\* charged a mismatch.
ClippedBy(k) ==
    /\ aln.abort = "none"
    /\ aln.apath # <<>>
    /\ aln.apath[Len(aln.apath)] = [type |-> "SOFT_CLIP", length |-> k]
    /\ aln.score = (Len(aln.query) - k) * aln.scores.match + k * aln.scores.mismatch

\* The scores of the alignments that end with the last query base inside a
\* reference: the MATCH score of the last column of every row.
InsideScores ==
    {aln.rows1[r][Len(aln.query) + 1].match : r \in DOMAIN aln.rows1}
        \cup {aln.rows2[r][Len(aln.query) + 1].match : r \in DOMAIN aln.rows2}

\* C13 as stated: a query whose first part aligns up to the end of the
\* reference and whose k >= 1 trailing bases neither reference explains comes
\* back with a path that ends in a SOFT_CLIP of exactly k bases, each charged
\* one mismatch.
C13_TrailingSoftClipAlways ==
    \A k \in 1 .. MaxQueryLen :
        (aln.called /\ aln.abort # "empty" /\ TrailsOff(k)) => ClippedBy(k)

\* The scores of the alignments that fall off the end of ref2 with fewer
\* than k bases clipped.
FallOffScoresBelow(k) ==
    {aln.rows2[Len(aln.rows2)][queryIndex + 1].match
         + (Len(aln.query) - queryIndex) * aln.scores.mismatch :
     queryIndex \in (Len(aln.query) - k + 1) .. Len(aln.query)}

\* The part's matches less k mismatches is the best score there is: higher
\* than that of any alignment that ends inside a reference, and not lower
\* than that of a fall-off with fewer bases clipped.
ClipIsBest(k) ==
    LET clipped == (Len(aln.query) - k) * aln.scores.match + k * aln.scores.mismatch
    IN  /\ \A s \in InsideScores : s < clipped
        /\ \A s \in FallOffScoresBelow(k) : s <= clipped

\* C13: the same, when no alignment that ends inside ref1 or ref2 scores as
\* high as the part's matches less k mismatches and no fall-off that clips
\* fewer bases scores higher.
C13_TrailingSoftClip ==
    \A k \in 1 .. MaxQueryLen :
        (aln.called /\ aln.abort # "empty" /\ TrailsOff(k) /\ ClipIsBest(k))
        => ClippedBy(k)

\* A query that runs two bases past the end of ref2 has been aligned.
C13_Witness ==
    /\ Returns
    /\ Len(aln.query) = 3
    /\ TrailsOff(2)
    /\ ClipIsBest(2)
    /\ aln.apath = <<[type |-> "MATCH", length |-> 1], [type |-> "SOFT_CLIP", length |-> 2]>>

RECURSIVE SumLengths(_, _)
SumLengths(apath, types) ==
    IF apath = <<>>
    THEN 0
    ELSE (IF Head(apath).type \in types THEN Head(apath).length ELSE 0)
             + SumLengths(Tail(apath), types)

C17_JumpCarriedIntoPass2 ==
    (aln.called /\ aln.abort # "empty")
    => \A queryIndex \in 1 .. Len(aln.query) :
         /\ aln.pass2Start[queryIndex + 1].jump = aln.pass1End[queryIndex + 1].jump
         /\ aln.pass2Start[queryIndex + 1].jump # badVal

Candidates ==
    LET querySize == Len(aln.query)
        lastRow == aln.rows2[Len(aln.rows2)]
    IN  [r \in DOMAIN aln.rows1 |->
            [score |-> aln.rows1[r][querySize + 1].match,
             refStart |-> r, queryStart |-> querySize]]
        \o [r \in DOMAIN aln.rows2 |->
            [score |-> aln.rows2[r][querySize + 1].match,
             refStart |-> r, queryStart |-> querySize]]
        \o [k \in 1 .. (querySize + 1) |->
            [score |-> lastRow[k].match + (querySize - (k - 1)) * aln.scores.mismatch,
             refStart |-> refSizeOf(aln.ref1, aln.ref2), queryStart |-> k - 1]]

\* The first candidate no other one beats.
FirstBest(cands) ==
    CHOOSE n \in DOMAIN cands :
        /\ \A k \in DOMAIN cands : cands[k].score <= cands[n].score
        /\ \A k \in 1 .. (n - 1) : cands[k].score < cands[n].score

\* C19: the reported score is the highest score of the candidate end states,
\* and the seed kept for the traceback is the first candidate, in the order
\* they are looked at, that has it: an equal later one does not replace it.
C19_FirstSeenOptimumWins ==
    (aln.called /\ aln.abort # "empty")
    => LET best == Candidates[FirstBest(Candidates)]
       IN  /\ aln.score = best.score
           /\ aln.seed.max = best.score
           /\ aln.seed.refStart = best.refStart
           /\ aln.seed.queryStart = best.queryStart

\* The best score is had by a row of ref1, by a row of ref2 at another row
\* index and by a fall-off column, and the row of ref1 is the seed.
C19_Witness ==
    /\ Returns
    /\ \E a \in DOMAIN aln.rows1, b \in DOMAIN aln.rows2 :
         /\ a # b
         /\ aln.rows1[a][Len(aln.query) + 1].match = aln.score
         /\ aln.rows2[b][Len(aln.query) + 1].match = aln.score
         /\ aln.seed.refStart = a
         /\ \A r \in 1 .. (a - 1) : aln.rows1[r][Len(aln.query) + 1].match < aln.score
    /\ \E n \in DOMAIN Candidates :
         /\ Candidates[n].queryStart < Len(aln.query)
         /\ Candidates[n].score = aln.score

\* Row r - 1 of pass 1, the row that is prevSV while row r is written.
PrevRow1(r) == IF r = 1 THEN initScores(Len(aln.query), aln.scores) ELSE aln.rows1[r - 1]

\* Row r - 1 of pass 2.
PrevRow2(r) == IF r = 1 THEN aln.pass2Start ELSE aln.rows2[r - 1]

\* The delete score with the gap extension added once: the best of the
\* previous row's match plus open, delete and insert, plus extend.
DeleteOnce(prev, queryIndex) ==
    max3(prev[queryIndex + 1].match + aln.scores.open,
         prev[queryIndex + 1].del,
         prev[queryIndex + 1].ins).max + aln.scores.extend

\* C20: the DELETE score of every pass 1 cell is the best of the previous
\* row's match plus open, delete and insert, with the gap extension added
\* exactly once, which is the recurrence of pass 2.
C20_SingleDeleteUpdate ==
    (aln.called /\ aln.abort # "empty")
    => /\ \A r \in DOMAIN aln.rows1, queryIndex \in 1 .. Len(aln.query) :
            aln.rows1[r][queryIndex + 1].del = DeleteOnce(PrevRow1(r), queryIndex)
       /\ \A r \in DOMAIN aln.rows2, queryIndex \in 1 .. Len(aln.query) :
            aln.rows2[r][queryIndex + 1].del = DeleteOnce(PrevRow2(r), queryIndex)

\* ---------------------------------------------------- assembler properties
\* No word length from wordLength_ to maxWordLength_ gives a seed among the
\* reads still unused.
NoSeedInRange(reads) ==
    \A wordLength \in wordLength_ .. maxWordLength_ : ~hasSeed(reads, wordLength)

\* While a call runs: no more than maxAssemblyIterations_ rounds have been
\* made, the word length is one of wordLength_ .. maxWordLength_, the loop goes
\* on only while unused reads remain and the budget lasts, and it has stopped
\* only because no unused read is left, the budget is spent, or no word length
\* in the range gives a seed.
AssemblyBounded ==
    asm.pc # "idle" =>
        /\ asm.iterations <= maxAssemblyIterations_
        /\ asm.wordLength \in wordLength_ .. maxWordLength_
        /\ asm.pc = "build" => moreRounds(asm.reads, asm.iterations)
        /\ asm.pc = "done" =>
               \/ unusedReads(asm.reads) = {}
               \/ asm.iterations = maxAssemblyIterations_
               \/ NoSeedInRange(asm.reads)

\* C15: every call of assembleSVLocus comes to its end, having made at most
\* maxAssemblyIterations_ rounds and used no word length above maxWordLength_;
\* it stops when no unused reads remain, the iteration cap is hit, or no word
\* length in the range yields a seed.
C15_AssemblyTerminates ==
    /\ []AssemblyBounded
    /\ (asm.pc = "build") ~> (asm.pc = "done")

\* A call stopped by the iteration cap with reads still unused.
C15_Witness ==
    /\ asm.pc = "done"
    /\ asm.iterations = maxAssemblyIterations_
    /\ unusedReads(asm.reads) # {}

\* C16: a call with fewer than minSeedReads_ reads emits no contig and ends
\* as any other call does, and no contig emitted is shorter than
\* minContigLength_.
C16_TooFewReadsNoContig ==
    asm.pc # "idle" =>
        /\ asm.input < minSeedReads_ => asm.contigs = {}
        /\ \A length \in asm.contigs : length >= minContigLength_

\* A call with one read has tried every word length and ended with no contig.
C16_Witness ==
    /\ asm.pc = "done"
    /\ asm.input = 1
    /\ asm.wordLength = maxWordLength_
    /\ asm.contigs = {}

\* The pointers of a pass 1 cell name no state that is disallowed where the
\* cell's predecessor lies: delete and insert in row 0 and in column 0, jump
\* in row 0, and the jump from the delete state anywhere.
AllowedPtr1(ptr, r, queryIndex) ==
    /\ ptr.match \in {"DELETE", "INSERT"} => (r > 1 /\ queryIndex > 1)
    /\ ptr.del \in {"DELETE", "INSERT"} => r > 1
    /\ ptr.ins \in {"DELETE", "INSERT"} => queryIndex > 1
    /\ ptr.jump # "DELETE"
    /\ ptr.jump \in {"INSERT", "JUMP"} => r > 1

\* The same for a pass 2 cell, where the jump score of every column from 1 on
\* is the sentinel.
AllowedPtr2(ptr, r, queryIndex) ==
    /\ ptr.match \in {"DELETE", "INSERT"} => (r > 1 /\ queryIndex > 1)
    /\ ptr.match = "JUMP" => (r > 1 /\ queryIndex = 1)
    /\ ptr.del \in {"DELETE", "INSERT"} => r > 1
    /\ ptr.ins \in {"DELETE", "INSERT"} => queryIndex > 1
    /\ ptr.ins = "JUMP" => queryIndex = 1

\* C21: whatever the lengths and the scores, no cell of either pass records a
\* disallowed state (a start in INSERT or DELETE, a JUMP that is not
\* available) as its best predecessor: the sentinel loses every comparison
\* with a legitimate score.
C21_SentinelDominates ==
    (aln.called /\ aln.abort # "empty")
    => /\ \A r \in 1 .. Len(aln.ref1) : \A queryIndex \in 1 .. Len(aln.query) :
            AllowedPtr1(aln._ptrMat1[r][queryIndex], r, queryIndex)
       /\ \A r \in 1 .. Len(aln.ref2) : \A queryIndex \in 1 .. Len(aln.query) :
            AllowedPtr2(aln._ptrMat2[r][queryIndex], r, queryIndex)

\* What a call would leave on an instance whose _score2[0].jump holds stale.
alignResult(query, ref1, ref2, scores, stale) ==
    LET p1 == pass1(query, ref1, scores, stale)
        p2 == pass2(query, ref2, scores, p1)
        seed == fallOff(p2.bt, p2.thisSV, 0, Len(query), scores, refSizeOf(ref1, ref2))
        tb == tracebackFrom(seed, Len(query), refSizeOf(ref1, ref2),
                            ptrMatOf(p1.ptrMat, p2.ptrMat))
    IN  AlignmentResult(query, ref1, ref2, scores, stale, p1, p2, seed, tb)

\* The part of a call's record that is handed back to the caller.
Handed(r) == <<r.score, r.apath, r.alignStart>>

\* C22: the score, path and alignStart a call returns are those the same call
\* returns on the same instance after any other calls: nothing a call reads
\* from the scratch vectors was left there by an earlier call. An instance
\* holds in _score2[0].jump either the 0 it was created with or the sentinel
\* an earlier call wrote.
C22_RepeatedUseDeterministic ==
    (aln.called /\ aln.abort # "empty")
    => \A stale \in {0, badVal} :
         Handed(alignResult(aln.query, aln.ref1, aln.ref2, aln.scores, stale)) = Handed(aln)

\* mergeNode(f, t) merges the edge of f to x into the edge of t to x: the
\* merged edge's count is the sum of the two counts as integers, and so not
\* below either of them.
C23_MergedEdge(f, t) ==
    \A x \in Nodes(_graph) \ {f, t} :
        (HasEdge(_graph, t, x) /\ HasEdge(_graph, f, x))
        => LET e1 == getNode(_graph, t).edges[x]
               e2 == getNode(_graph, f).edges[x]
               merged == getNode(_graph', Shift(t, f)).edges[Shift(x, f)]
           IN  /\ merged.count = e1.count + e2.count
               /\ merged.count >= e1.count
               /\ merged.count >= e2.count

\* C23: e1.mergeEdge(e2) leaves in e1 the sum of the two counts as integers,
\* with no wrap-around of the stored count, so a mergeNode never lowers the
\* weight of an edge it merges.
C23_MergeEdgeNoLoss ==
    [][\A f \in Nodes(_graph) : \A t \in Nodes(_graph) :
          MergeNodeCall(f, t) => C23_MergedEdge(f, t)]_vars

\* C24: in every state reached by addNode, linkNodes (with any two valid
\* indices that have no edge yet, the two being equal included) and mergeNode,
\* no node has an edge to itself.
C24_NoSelfLoops ==
    \A a \in Nodes(_graph) : ~HasEdge(_graph, a, a)

\* ------------------------------------------------ SimpleAlignment properties
\* The alignment with its edge soft-clips turned into matches.
SoftClipMatchified(al) == matchifyEdgeSegmentType(al, "SOFT_CLIP", TRUE, TRUE)

\* C25: the range matchifyEdgeSoftClipRefRange returns for an alignment starts
\* at the pos of the alignment matchifyEdgeSegmentType(al, SOFT_CLIP, true,
\* true) returns and is as long as the reference length (MATCH and DELETE
\* segments) of that alignment's path, insertions and deletions outside the
\* outermost matches included.
C25_RefRangeAgrees ==
    sa.op = "matchifyEdgeSoftClipRefRange"
    => sa.range =
         [begin_pos |-> SoftClipMatchified(sa.al).pos,
          end_pos |-> SoftClipMatchified(sa.al).pos
                        + SumLengths(SoftClipMatchified(sa.al).path, {"MATCH", "DELETE"})]

\* Segment i (from 0) of the call's input lies outside the outermost matches
\* on a side the call converts, and has the type the call converts.
Converted(i) ==
    LET ends == get_match_edge_segments(sa.al.path)
    IN  /\ \/ (sa.isMatchLeadingEdge /\ i < ends[1])
           \/ (sa.isMatchTrailingEdge /\ i > ends[2])
        /\ sa.al.path[i + 1].type = sa.segmentType

\* The segments of the input that are neither matches nor converted, in order.
KeptSegments ==
    LET kept == SelectSeq([n \in DOMAIN sa.al.path |-> n],
                          LAMBDA n : sa.al.path[n].type # "MATCH" /\ ~Converted(n - 1))
    IN  [k \in DOMAIN kept |-> sa.al.path[kept[k]]]

\* The total length of the converted segments before the first match.
RECURSIVE ConvertedLeading(_)
ConvertedLeading(i) ==
    IF i >= get_match_edge_segments(sa.al.path)[1]
    THEN 0
    ELSE (IF Converted(i) THEN sa.al.path[i + 1].length ELSE 0) + ConvertedLeading(i + 1)

\* C26: what matchifyEdgeSegmentType returns for a read-length segment type
\* has the read length, the strand and the tid of its input and no two
\* adjacent MATCH segments; its segments other than MATCH are the input's
\* unconverted ones, unchanged and in order (so every segment between the
\* first and the last input match that is not a match is kept as it is); its
\* pos is the input's less the lengths of the converted leading segments.
C26_MatchifyPreservesRead ==
    (sa.op = "matchifyEdgeSegmentType" /\ sa.asserted)
    => /\ SumLengths(sa.al2.path, {"MATCH", "INSERT", "SOFT_CLIP"})
            = SumLengths(sa.al.path, {"MATCH", "INSERT", "SOFT_CLIP"})
       /\ sa.al2.is_fwd_strand = sa.al.is_fwd_strand
       /\ sa.al2.tid = sa.al.tid
       /\ \A n \in 1 .. (Len(sa.al2.path) - 1) :
            ~(sa.al2.path[n].type = "MATCH" /\ sa.al2.path[n + 1].type = "MATCH")
       /\ SelectSeq(sa.al2.path, LAMBDA ps : ps.type # "MATCH") = KeptSegments
       /\ \A i \in 0 .. (Len(sa.al.path) - 1) :
            (/\ get_match_edge_segments(sa.al.path)[1] < i
             /\ i < get_match_edge_segments(sa.al.path)[2]) => ~Converted(i)
       /\ sa.al2.pos = sa.al.pos - ConvertedLeading(0)

\* Soft-clips on both sides of a match have been converted and merged into it.
C26_Witness ==
    /\ sa.op = "matchifyEdgeSegmentType"
    /\ sa.asserted
    /\ sa.segmentType = "SOFT_CLIP"
    /\ sa.al.path = <<[type |-> "SOFT_CLIP", length |-> 2], [type |-> "MATCH", length |-> 1],
                      [type |-> "SOFT_CLIP", length |-> 1]>>
    /\ sa.al2.path = <<[type |-> "MATCH", length |-> 4]>>
    /\ sa.al2.pos = sa.al.pos - 2

=============================================================================
